---- MODULE Spec2Model ----
(***************************************************************************)
(* Model of tg-llm-multibot's handler: the shared conversation memory      *)
(* (tg-handler/memory/memory.go), the generation client                    *)
(* (tg-handler/api/api.go) and the per-bot workers (package main).         *)
(*                                                                         *)
(* Text is modelled as a sequence of one-character strings, so that        *)
(* suffix tests, trimming, capitalisation and concatenation are computed   *)
(* and not assumed.                                                        *)
(***************************************************************************)
EXTENDS Integers, Sequences, FiniteSets, TLC

VARIABLES
    history,    \* main: History, bot name -> chat id -> line -> MessageEntry
    mu,         \* main: the one sync.RWMutex shared by all containers
    pc,         \* main: each worker's position in botHandler/handleMessage
    loc,        \* main: each worker's local variables
    file,       \* main: content of the history file
    now,        \* the clock read by time.Now(), in hours
    chat,       \* store: one ChatHistory, line -> MessageEntry
    lastOp,     \* store: the last store call, its arguments and what it returned
    lineMsg,    \* line: the message given to toLine
    lineOut,    \* line: what toLine returned for it
    snd         \* send: the state of one api.Send call

vars == <<history, mu, pc, loc, file, now, chat, lastOp, lineMsg, lineOut, snd>>

-----------------------------------------------------------------------------
(* Text *)

E == <<>>

IsLower(c) == c \in {"a", "b", "g", "h", "i", "l", "o"}
IsUpper(c) == c \in {"A", "B", "G", "H", "I", "L", "O"}
IsLetter(c) == IsLower(c) \/ IsUpper(c)

Upper(c) ==
    CASE c = "a" -> "A" [] c = "b" -> "B" [] c = "g" -> "G" [] c = "h" -> "H"
      [] c = "i" -> "I" [] c = "l" -> "L" [] c = "o" -> "O" [] OTHER -> c

Lower(c) ==
    CASE c = "A" -> "a" [] c = "B" -> "b" [] c = "G" -> "g" [] c = "H" -> "h"
      [] c = "I" -> "i" [] c = "L" -> "l" [] c = "O" -> "o" [] OTHER -> c

\* strings.HasSuffix(s, suffix)
HasSuffix(s, suffix) ==
    /\ Len(suffix) <= Len(s)
    /\ SubSeq(s, Len(s) - Len(suffix) + 1, Len(s)) = suffix

\* strings.TrimSuffix(s, suffix)
TrimSuffix(s, suffix) ==
    IF HasSuffix(s, suffix) THEN SubSeq(s, 1, Len(s) - Len(suffix)) ELSE s

\* cases.Title(language.English).String(str): the first letter of every word
\* in upper case, every other letter in lower case.
capitalize(str) ==
    [i \in 1..Len(str) |->
        IF i = 1 \/ ~IsLetter(str[i - 1]) THEN Upper(str[i]) ELSE Lower(str[i])]

Reverse(s) == [i \in 1..Len(s) |-> s[Len(s) + 1 - i]]

-----------------------------------------------------------------------------
(* Messages: what the IMessage accessors GetText, GetSender, GetOrder give. *)

NilMsg == [nil |-> TRUE]     \* the nil interface value
Panic  == <<"PANIC">>        \* a run-time panic (nil dereference) instead of a line

Msg(t, s, o) == [text |-> t, sender |-> s, order |-> o]

T_hi   == <<"h", "i">>
T_go   == <<"g", "o", "!">>
S_bob  == <<"b", "o", "b">>
O_bang == <<"!">>

Texts   == {E, T_hi, T_go}
Senders == {E, S_bob}
Orders  == {E, O_bang}
Msgs    == [text : Texts, sender : Senders, order : Orders]

\* toLine with the branch on the order as written: result stays "" when the
\* message has an order its text does not end with.
toLine(message) ==
    IF message = NilMsg THEN Panic
    ELSE IF message.text = E \/ message.sender = E THEN E
    ELSE IF message.order # E
         THEN IF HasSuffix(message.text, message.order)
              THEN TrimSuffix(message.text, message.order)
              ELSE E
         ELSE capitalize(message.sender) \o <<":", " ">> \o message.text

\* Every line a message of Msgs can give (the empty line included).
Lines == {toLine(m) : m \in Msgs}

-----------------------------------------------------------------------------
(* The store's operations on one ChatHistory: a function from the lines that *)
(* are keys to MessageEntry records [Line, Timestamp].                       *)

TIME_LIMIT == 24            \* hours

NoEntries == [l \in {} |-> [Line |-> E, Timestamp |-> 0]]

\* getLines without the test that the previous line is not empty.
getLines_KeepEmptyPrev(messages, line) ==
    LET lastLine == toLine(messages[1])
    IN  IF line # E THEN <<lastLine, line>>
        ELSE LET prevLine == toLine(messages[2])
             IN  IF prevLine = Panic THEN Panic ELSE <<lastLine, prevLine>>

\* getLines: the newest line first, then the reused line if one is passed,
\* else the previous message's line if it is not empty.  Panic when the
\* previous message has to be converted and is nil.
getLines(messages, line) ==
    LET lastLine == toLine(messages[1])
    IN  IF line # E THEN <<lastLine, line>>
        ELSE LET prevLine == toLine(messages[2])
             IN  IF prevLine = Panic THEN Panic
                 ELSE IF prevLine # E THEN <<lastLine, prevLine>>
                 ELSE <<lastLine>>

\* Add leaving an entry that is already stored under the newest line.
Add_FirstWins(messages, line, H, t) ==
    LET lines == getLines(messages, line)
    IN  IF Len(lines) < 2 \/ lines[1] \in DOMAIN H THEN H
        ELSE [l \in DOMAIN H \cup {lines[1]} |->
                 IF l = lines[1] THEN [Line |-> lines[2], Timestamp |-> t]
                 ELSE H[l]]

\* Add: the chat history after the call at time t (getLines did not panic).
Add(messages, line, H, t) ==
    LET lines == getLines(messages, line)
    IN  IF Len(lines) < 2 THEN H
        ELSE [l \in DOMAIN H \cup {lines[1]} |->
                 IF l = lines[1] THEN [Line |-> lines[2], Timestamp |-> t]
                 ELSE H[l]]

\* The loop running one iteration too many (i > n for i >= n).
RECURSIVE GetLoop_OneMore(_, _, _, _, _)
GetLoop_OneMore(lines, lastLine, i, n, H) ==
    IF i > n THEN [lines |-> lines, lookups |-> i]
    ELSE IF lastLine \in DOMAIN H
         THEN GetLoop_OneMore(Append(lines, H[lastLine].Line), H[lastLine].Line,
                              i + 1, n, H)
         ELSE [lines |-> lines, lookups |-> i + 1]

\* The loop not testing `ok`: a missing key gives the zero MessageEntry, whose
\* empty Line is appended, and the walk goes on.
RECURSIVE GetLoop_IgnoreMiss(_, _, _, _, _)
GetLoop_IgnoreMiss(lines, lastLine, i, n, H) ==
    IF i >= n THEN [lines |-> lines, lookups |-> i]
    ELSE LET prevLine == IF lastLine \in DOMAIN H THEN H[lastLine].Line ELSE E
         IN  GetLoop_IgnoreMiss(Append(lines, prevLine), prevLine, i + 1, n, H)

\* The loop ending the walk at a predecessor it has already collected.
RECURSIVE GetLoop_StopOnRepeat(_, _, _, _, _)
GetLoop_StopOnRepeat(lines, lastLine, i, n, H) ==
    IF i >= n THEN [lines |-> lines, lookups |-> i]
    ELSE IF lastLine \in DOMAIN H
              /\ \A k \in 1..Len(lines) : lines[k] # H[lastLine].Line
         THEN GetLoop_StopOnRepeat(Append(lines, H[lastLine].Line),
                                   H[lastLine].Line, i + 1, n, H)
         ELSE [lines |-> lines, lookups |-> i + 1]

\* The loop of Get: `lines` grows by one predecessor per successful lookup,
\* i counts the iterations begun, n is memoryLimit - 2.
RECURSIVE GetLoop(_, _, _, _, _)
GetLoop(lines, lastLine, i, n, H) ==
    IF i >= n THEN [lines |-> lines, lookups |-> i]
    ELSE IF lastLine \in DOMAIN H
         THEN GetLoop(Append(lines, H[lastLine].Line), H[lastLine].Line, i + 1, n, H)
         ELSE [lines |-> lines, lookups |-> i + 1]

\* Get returning the accumulated lines without reversing them.
Get_NoReverse(lines, H, memoryLimit) ==
    IF Len(lines) < 2 THEN [dialog |-> lines, arg |-> lines, lookups |-> 0]
    ELSE LET r == GetLoop(lines, lines[2], 0, memoryLimit - 2, H)
         IN  [dialog |-> r.lines, arg |-> lines, lookups |-> r.lookups]

\* Get(lines, sh, memoryLimit), called with a slice whose capacity equals its
\* length (what Add returns: a one-element literal, grown by at most one
\* append).  dialog: the slice returned.  arg: the caller's slice after the
\* call; the first append moves the lines to a new array, so the in-place
\* reverse reaches the caller's array exactly when nothing was appended.
\* lookups: the number of map lookups done.
Get(lines, H, memoryLimit) ==
    IF Len(lines) < 2 THEN [dialog |-> lines, arg |-> lines, lookups |-> 0]
    ELSE LET r == GetLoop(lines, lines[2], 0, memoryLimit - 2, H)
         IN  [dialog  |-> Reverse(r.lines),
              arg     |-> IF Len(r.lines) = Len(lines) THEN Reverse(lines) ELSE lines,
              lookups |-> r.lookups]

\* The sweep deleting at the limit too (>= for >).
CleanChat_AtLimit(H, currentTime) ==
    [l \in {k \in DOMAIN H : ~(currentTime - H[k].Timestamp >= TIME_LIMIT)} |-> H[l]]

\* CleanHistory's two inner loops on one chat: delete every line whose entry
\* is older than TIME_LIMIT at currentTime.
CleanChat(H, currentTime) ==
    [l \in {k \in DOMAIN H : ~(currentTime - H[k].Timestamp > TIME_LIMIT)} |-> H[l]]

-----------------------------------------------------------------------------
(* Bounds *)

MaxTicks  == 2      \* the clock advances at most this many times
MaxDepth  == 5      \* the largest memory_limit tried

\* One step of the clock is the retention window, so that entries exactly at
\* the boundary and entries beyond it both occur.
TickHours == TIME_LIMIT

MaxTime == TickHours * MaxTicks
Times   == {k * TickHours : k \in 0..MaxTicks}
Depths  == -1..MaxDepth

-----------------------------------------------------------------------------
(* Values the variables of the other specifications rest at. *)

Idle == [op |-> "idle"]

MainIdle ==
    /\ history = Idle /\ mu = Idle /\ pc = Idle
    /\ loc = Idle /\ file = Idle
StoreIdle == chat = Idle /\ lastOp = Idle
LineIdle  == lineMsg = Idle /\ lineOut = Idle
SendIdle  == snd = Idle

mainVars  == <<history, mu, pc, loc, file>>
storeVars == <<chat, lastOp>>
lineVars  == <<lineMsg, lineOut>>

-----------------------------------------------------------------------------
(* SpecLine: toLine applied to one message after another. *)

L_al == <<"A", "L">>

LineMsgs == [text   : Texts \cup {O_bang, T_go \o O_bang, T_hi \o <<" ">> \o S_bob},
             sender : Senders \cup {L_al, S_bob \o <<" ">> \o L_al},
             order  : Orders \cup {T_go}]

Pending == <<"PENDING">>

LineInit ==
    /\ lineMsg \in LineMsgs /\ lineOut = Pending
    /\ now = 0 /\ MainIdle /\ StoreIdle /\ SendIdle

LineConvert ==
    /\ lineOut = Pending
    /\ lineOut' = toLine(lineMsg)
    /\ UNCHANGED <<lineMsg, now, mainVars, storeVars, snd>>

LineNext ==
    /\ lineOut # Pending
    /\ lineMsg' \in LineMsgs /\ lineOut' = Pending
    /\ UNCHANGED <<now, mainVars, storeVars, snd>>

SpecLine == LineInit /\ [][LineConvert \/ LineNext]_vars

-----------------------------------------------------------------------------
(* SpecStore: record (Add), query (Get) and the sweep (CleanHistory) called  *)
(* one after another on one chat history, with the clock advancing between. *)

\* Add is called as Add({c, m}, "", sh) and as Add({m, nil}, lines[0], sh).
RecordArgs ==
    {<<ms, E>> : ms \in Msgs \X Msgs}
      \cup {<<ms, l>> : ms \in Msgs \X {NilMsg}, l \in Lines}

\* Get is called with what Add returned.
QueryLines == {<<l>> : l \in Lines} \cup (Lines \X (Lines \ {E}))

StoreInit ==
    /\ chat = NoEntries /\ lastOp = [op |-> "load"] /\ now = 0
    /\ MainIdle /\ LineIdle /\ SendIdle

\* The caller is between two calls.
Ready == lastOp.op \in {"load", "done"}

StoreRecord ==
    /\ Ready
    /\ \E a \in RecordArgs :
          LET lines == getLines(a[1], a[2])
          IN  IF lines = Panic
              THEN /\ lastOp' = [op |-> "panic"]
                   /\ chat' = chat
              ELSE /\ chat' = Add(a[1], a[2], chat, now)
                   /\ lastOp' = [op |-> "record", newest |-> toLine(a[1][1]),
                                 previous |-> toLine(a[1][2]), line |-> a[2],
                                 ret |-> lines, before |-> chat]
    /\ UNCHANGED <<now, mainVars, lineVars, snd>>

StoreQuery ==
    /\ Ready
    /\ \E lines \in QueryLines, d \in Depths :
          lastOp' = [op |-> "query", lines |-> lines, depth |-> d,
                     ret |-> Get(lines, chat, d)]
    /\ UNCHANGED <<chat, now, mainVars, lineVars, snd>>

StoreSweep ==
    /\ Ready
    /\ chat' = CleanChat(chat, now)
    /\ lastOp' = [op |-> "sweep", before |-> chat]
    /\ UNCHANGED <<now, mainVars, lineVars, snd>>

StoreTick ==
    /\ Ready
    /\ now + TickHours <= MaxTime
    /\ now' = now + TickHours
    /\ UNCHANGED <<chat, lastOp, mainVars, lineVars, snd>>

\* The caller takes the result and goes on (a panic ends the process).
StoreReturn ==
    /\ lastOp.op \in {"record", "query", "sweep"}
    /\ lastOp' = [op |-> "done"]
    /\ UNCHANGED <<chat, now, mainVars, lineVars, snd>>

StoreNext == StoreRecord \/ StoreQuery \/ StoreSweep \/ StoreTick \/ StoreReturn

SpecStore == StoreInit /\ [][StoreNext]_vars

-----------------------------------------------------------------------------
(* SpecSend: one call of api.Send, a step per settings load, placeholder     *)
(* check, request and sleep.                                                 *)

MAX_SEND_TRY == 3
RETRY_TIME   == 5           \* seconds

NoErr == [kind |-> "nil", try |-> 0]

R_ok == <<"o", "k">>
RespTexts == {E, R_ok}

\* What one sendRequestBody call can come to: client.Do fails, the status is
\* not 200, the body does not decode, or a response text.
Outcomes ==
    {[kind |-> k, text |-> E] : k \in {"transport", "status", "decode"}}
      \cup {[kind |-> "ok", text |-> t] : t \in RespTexts}

\* sendRequestBody's return values for an outcome of try number i (from 0).
sendRequestBody(o, i) ==
    IF o.kind = "ok" THEN [text |-> o.text, err |-> NoErr]
    ELSE [text |-> E, err |-> [kind |-> o.kind, try |-> i]]

\* The system prompt as a sequence of pieces, "%s" the placeholder.
Prompts == {<<"be kind">>, <<"chat ", "%s">>, <<"%s", " and ", "%s">>}
Titles  == {"club", "team"}

\* strings.Count(prompt, "%s")
CountPlaceholders(prompt) == Cardinality({i \in 1..Len(prompt) : prompt[i] = "%s"})

\* fmt.Sprintf(prompt, chatTitle) for a prompt with one placeholder
Sprintf(prompt, title) ==
    [i \in 1..Len(prompt) |-> IF prompt[i] = "%s" THEN title ELSE prompt[i]]

\* 1 << n
Shl1(n) == 2 ^ n

\* sys: the system_prompt of the settings file.  prompt: Send's variable of
\* that name.  att: the outcomes of the requests made.  sent: the system
\* prompt each request carried.  waits: the sleeps made, in seconds.
SendInit ==
    /\ snd \in {[pc |-> "load", load |-> "none", sys |-> p, prompt |-> E,
                 title |-> t, i |-> 0, att |-> <<>>, waits |-> <<>>,
                 text |-> E, err |-> NoErr, sent |-> <<>>]
                   : p \in Prompts, t \in Titles}
    /\ now = 0 /\ MainIdle /\ StoreIdle /\ LineIdle

\* newRequestBody -> loadSettings: log.Fatalf (the process exits) when the
\* file cannot be read or decoded.
SendLoad ==
    /\ snd.pc = "load"
    /\ \E r \in {"ok", "read_err", "decode_err"} :
          snd' = [snd EXCEPT !.load = r,
                             !.prompt = IF r = "ok" THEN snd.sys ELSE E,
                             !.pc = IF r = "ok" THEN "check" ELSE "exit"]
    /\ UNCHANGED <<now, mainVars, storeVars, lineVars>>

\* The check passing every prompt that has a placeholder.
SendCheck_AtLeastOne ==
    /\ snd.pc = "check"
    /\ IF CountPlaceholders(snd.prompt) = 0
       THEN snd' = [snd EXCEPT !.pc = "done", !.text = E,
                               !.err = [kind |-> "config", try |-> 0]]
       ELSE snd' = [snd EXCEPT !.pc = "try",
                               !.prompt = Sprintf(snd.prompt, snd.title)]
    /\ UNCHANGED <<now, mainVars, storeVars, lineVars>>

\* The placeholder count and the substitution.
SendCheck ==
    /\ snd.pc = "check"
    /\ IF CountPlaceholders(snd.prompt) # 1
       THEN snd' = [snd EXCEPT !.pc = "done", !.text = E,
                               !.err = [kind |-> "config", try |-> 0]]
       ELSE snd' = [snd EXCEPT !.pc = "try",
                               !.prompt = Sprintf(snd.prompt, snd.title)]
    /\ UNCHANGED <<now, mainVars, storeVars, lineVars>>

\* The iteration without the break: a success goes on to the next try.
SendTry_NoBreak ==
    /\ snd.pc = "try"
    /\ \E o \in Outcomes :
          LET r == sendRequestBody(o, snd.i)
          IN  snd' = [snd EXCEPT !.att = Append(@, o),
                                 !.sent = Append(@, snd.prompt),
                                 !.text = r.text, !.err = r.err,
                                 !.i = IF r.err = NoErr THEN @ + 1 ELSE @,
                                 !.pc = IF r.err # NoErr THEN "sleep"
                                        ELSE IF snd.i + 1 < MAX_SEND_TRY THEN "try"
                                        ELSE "done"]
    /\ UNCHANGED <<now, mainVars, storeVars, lineVars>>

\* One iteration of the loop up to the break: the request and its outcome.
SendTry ==
    /\ snd.pc = "try"
    /\ \E o \in Outcomes :
          LET r == sendRequestBody(o, snd.i)
          IN  snd' = [snd EXCEPT !.att = Append(@, o),
                                 !.sent = Append(@, snd.prompt),
                                 !.text = r.text, !.err = r.err,
                                 !.pc = IF r.err = NoErr THEN "done" ELSE "sleep"]
    /\ UNCHANGED <<now, mainVars, storeVars, lineVars>>

\* The sleep with the shift by i for i+1.
SendSleep_ShiftByI ==
    /\ snd.pc = "sleep"
    /\ snd' = [snd EXCEPT !.waits = Append(@, RETRY_TIME * Shl1(snd.i)),
                           !.i = @ + 1,
                           !.pc = IF snd.i + 1 < MAX_SEND_TRY THEN "try" ELSE "done"]
    /\ UNCHANGED <<now, mainVars, storeVars, lineVars>>

\* The rest of a failed iteration: the sleep, and the loop's next i.
SendSleep ==
    /\ snd.pc = "sleep"
    /\ snd' = [snd EXCEPT !.waits = Append(@, RETRY_TIME * Shl1(snd.i + 1)),
                           !.i = @ + 1,
                           !.pc = IF snd.i + 1 < MAX_SEND_TRY THEN "try" ELSE "done"]
    /\ UNCHANGED <<now, mainVars, storeVars, lineVars>>

SendNext == SendLoad \/ SendCheck \/ SendTry \/ SendSleep

SpecSend == SendInit /\ [][SendNext]_vars

\* Every request ends (the client has a timeout) and every sleep ends.
FairSpecSend == SpecSend /\ WF_vars(SendNext)

-----------------------------------------------------------------------------
(* The history file: what encoding/json writes for a History and reads back. *)

NoBots  == [b \in {} |-> 0]
NoChats == [c \in {} |-> 0]

\* The nil map that decoding the JSON value null leaves in `history`.
NilHistory == [nil |-> TRUE]

DigitChar(d) ==
    CASE d = 0 -> "0" [] d = 1 -> "1" [] d = 2 -> "2" [] d = 3 -> "3" [] d = 4 -> "4"
      [] d = 5 -> "5" [] d = 6 -> "6" [] d = 7 -> "7" [] d = 8 -> "8" [] d = 9 -> "9"

DigitVal(c) ==
    CASE c = "0" -> 0 [] c = "1" -> 1 [] c = "2" -> 2 [] c = "3" -> 3 [] c = "4" -> 4
      [] c = "5" -> 5 [] c = "6" -> 6 [] c = "7" -> 7 [] c = "8" -> 8 [] c = "9" -> 9

RECURSIVE FormatNat(_)
FormatNat(n) ==
    IF n < 10 THEN <<DigitChar(n)>>
    ELSE FormatNat(n \div 10) \o <<DigitChar(n % 10)>>

RECURSIVE ParseNat(_)
ParseNat(s) ==
    IF s = <<>> THEN 0
    ELSE ParseNat(SubSeq(s, 1, Len(s) - 1)) * 10 + DigitVal(s[Len(s)])

\* An int64 map key as encoding/json writes it (decimal text) and reads it.
FormatInt(n) == IF n < 0 THEN <<"-">> \o FormatNat(0 - n) ELSE FormatNat(n)
ParseInt(s)  == IF s[1] = "-" THEN 0 - ParseNat(SubSeq(s, 2, Len(s))) ELSE ParseNat(s)

\* The time written with its date alone.
FormatTime_DateOnly(t) == [date |-> t \div 24, hour |-> 0]

\* A time.Time as its MarshalJSON writes it (RFC 3339: date, then time of day)
\* and its UnmarshalJSON reads it; the clock counts hours.
FormatTime(t) == [date |-> t \div 24, hour |-> t % 24]
ParseTime(x)  == x.date * 24 + x.hour

\* MessageEntry with its tags `json:"msg"` and `json:"ts"`
MarshalEntry(e)   == [msg |-> e.Line, ts |-> FormatTime(e.Timestamp)]
UnmarshalEntry(j) == [Line |-> j.msg, Timestamp |-> ParseTime(j.ts)]

MarshalChat(H)   == [l \in DOMAIN H |-> MarshalEntry(H[l])]
UnmarshalChat(j) == [l \in DOMAIN j |-> UnmarshalEntry(j[l])]

MarshalBot(B) ==
    [k \in {FormatInt(c) : c \in DOMAIN B} |-> MarshalChat(B[ParseInt(k)])]
UnmarshalBot(j) ==
    [c \in {ParseInt(k) : k \in DOMAIN j} |->
        UnmarshalChat(j[CHOOSE k \in DOMAIN j : ParseInt(k) = c])]

\* What a file at the history path can be: absent; there, but OpenFile
\* fails on it (no permission, a directory); opened, but reading it fails;
\* bytes that are no JSON value (none at all, or an encoding cut short);
\* a JSON value of another shape; the JSON value null; a JSON object.
Missing    == [kind |-> "missing"]
NoAccess   == [kind |-> "noaccess"]
ReadFails  == [kind |-> "readfails"]
Truncated  == [kind |-> "truncated"]
Mistyped   == [kind |-> "mistyped"]
NullFile   == [kind |-> "null"]

\* json.Marshal(sh.History), as the content of the file
Marshal(Hist) ==
    [kind |-> "object", obj |-> [b \in DOMAIN Hist |-> MarshalBot(Hist[b])]]

\* json.Unmarshal(data, &history) on a JSON object written by Marshal
Unmarshal(f) == [b \in DOMAIN f.obj |-> UnmarshalBot(f.obj[b])]

\* LoadHistory(source): exit when log.Fatalf ends the process; else the
\* history returned and the file as the call leaves it (O_CREATE makes an
\* absent file, with no bytes).
LoadHistory(f) ==
    CASE f = NoAccess  -> [exit |-> TRUE,  history |-> NoBots, file |-> f]
      [] f = ReadFails -> [exit |-> TRUE,  history |-> NoBots, file |-> f]
      [] f = Missing   -> [exit |-> FALSE, history |-> NoBots, file |-> Truncated]
      [] f = Truncated -> [exit |-> FALSE, history |-> NoBots, file |-> f]
      [] f = Mistyped  -> [exit |-> FALSE, history |-> NoBots, file |-> f]
      [] f = NullFile  -> [exit |-> FALSE, history |-> NilHistory, file |-> f]
      [] OTHER         -> [exit |-> FALSE, history |-> Unmarshal(f), file |-> f]

-----------------------------------------------------------------------------
(* Spec: the workers of package main, one per bot, on the shared history.    *)

Workers == {"b1", "b2"}     \* the bots, by name; worker w runs botHandler for bot w
CIDs    == {1, 2}           \* chat ids in the loaded history
NewCIDs == {1}              \* chat ids of the updates
MaxMsgs == 2                \* updates the workers take, all together

MemoryLimit == 5            \* memory_limit of init.json

\* The text a successful Send gives back to handleMessage.
R_go == T_go

\* The replied-to message of an update that replies to nothing: it yields no line.
NoReply == Msg(E, E, E)

\* Inbound updates: the message and the message it replies to.
Updates ==
    { [msg |-> Msg(T_hi, S_bob, E),      reply |-> NoReply],
      [msg |-> Msg(T_go, S_bob, O_bang), reply |-> Msg(T_hi, S_bob, E)],
      [msg |-> Msg(E, S_bob, E),         reply |-> NoReply] }

\* messaging.NewMessageInfo(c.Bot, resp) for the reply sent with `text`.
ReplyMsg(text) == Msg(text, S_bob, E)

L_hi == toLine(Msg(T_hi, S_bob, E))
L_go == toLine(Msg(T_go, S_bob, O_bang))

\* What LoadHistory can return: nothing, or what an earlier run saved.
Loaded ==
    [b \in {"b1"} |->
        [c \in CIDs |-> IF c = 1 THEN [l \in {L_hi} |-> [Line |-> L_go, Timestamp |-> 0]]
                        ELSE [l \in {L_go} |-> [Line |-> L_hi, Timestamp |-> 0]]]]
InitFiles == {Truncated, Marshal(Loaded)}

\* SafeHistory.Get between Lock and Unlock
SafeHistoryGet(Hist, botName) ==
    IF botName \in DOMAIN Hist THEN Hist
    ELSE [b \in DOMAIN Hist \cup {botName} |->
             IF b = botName THEN NoChats ELSE Hist[b]]

\* The getter assigning a new ChatHistory whether or not one is there.
SafeBotHistoryGet_AlwaysMake(Hist, botName, CID) ==
    [Hist EXCEPT ![botName] =
        [c \in DOMAIN Hist[botName] \cup {CID} |->
            IF c = CID THEN NoEntries ELSE Hist[botName][c]]]

\* SafeBotHistory.Get between Lock and Unlock, on the bot's container in Hist
SafeBotHistoryGet(Hist, botName, CID) ==
    IF CID \in DOMAIN Hist[botName] THEN Hist
    ELSE [Hist EXCEPT ![botName] =
             [c \in DOMAIN Hist[botName] \cup {CID} |->
                 IF c = CID THEN NoEntries ELSE Hist[botName][c]]]

\* CleanHistory between Lock and Unlock
CleanHistory(Hist, currentTime) ==
    [b \in DOMAIN Hist |-> [c \in DOMAIN Hist[b] |-> CleanChat(Hist[b][c], currentTime)]]

\* The lines of all chats, each with its bot and chat
Entries(Hist) ==
    UNION {UNION {{<<b, c, l>> : l \in DOMAIN Hist[b][c]} : c \in DOMAIN Hist[b]}
             : b \in DOMAIN Hist}

(* sync.RWMutex *)
NoOne == "none"
Unlocked == [writer |-> NoOne, readers |-> {}]
CanLock(m)  == m.writer = NoOne /\ m.readers = {}
CanRLock(m) == m.writer = NoOne
Lock(m, w)    == [m EXCEPT !.writer = w]
Unlock(m, w)  == [m EXCEPT !.writer = NoOne]
RLock(m, w)   == [m EXCEPT !.readers = @ \cup {w}]
RUnlock(m, w) == [m EXCEPT !.readers = @ \ {w}]

NoLocals == [cid |-> 0, u |-> Idle, lines |-> <<>>, dialog |-> <<>>,
             text |-> E, typing |-> "none", removed |-> 0]

\* handleMessage has returned: its locals are gone, its deferred cancel() has
\* cancelled the context of the Typing goroutine.
Returned == [NoLocals EXCEPT !.typing = "cancelled"]

Init ==
    /\ file \in InitFiles
    /\ history = LoadHistory(file).history
    /\ mu = Unlocked
    /\ pc = [w \in Workers |-> "getbot"]
    /\ loc = [w \in Workers |-> [n |-> 0, h |-> NoLocals]]
    /\ now = 0
    /\ StoreIdle /\ LineIdle /\ SendIdle

otherVars == <<storeVars, lineVars, snd>>

Goto(w, label) == pc' = [pc EXCEPT ![w] = label]

\* The process ends (os.Exit in log.Fatalf, or a panic no one recovers): its
\* memory is gone, the file stays.
Exit ==
    /\ pc' = [v \in Workers |-> "exit"]
    /\ history' = NoBots
    /\ mu' = Unlocked
    /\ loc' = [v \in Workers |-> [n |-> 0, h |-> NoLocals]]

\* time.Now(): the clock has not gone back since it was last read (now).
TimeNow == now' \in {t \in Times : t >= now}

\* A writer's Lock(): w enters the critical section `cs`.
Acquire(w, from, cs) ==
    /\ pc[w] = from
    /\ CanLock(mu)
    /\ mu' = Lock(mu, w)
    /\ Goto(w, cs)
    /\ UNCHANGED <<history, loc, file, now, otherVars>>

\* botHandler, safeHistory.Get(botName)
GetBotLock(w) == Acquire(w, "getbot", "getbot_cs")
GetBot(w) ==
    /\ pc[w] = "getbot_cs"
    /\ history' = SafeHistoryGet(history, w)
    /\ mu' = Unlock(mu, w)
    /\ Goto(w, "recv")
    /\ UNCHANGED <<loc, file, now, otherVars>>

\* The number of updates taken so far
RECURSIVE Taken(_)
Taken(S) ==
    IF S = {} THEN 0
    ELSE LET w == CHOOSE v \in S : TRUE IN loc[w].n + Taken(S \ {w})

\* for update := range updates: an update that is skipped (nil, not valid,
\* not asked) ...
RecvSkip(w) ==
    /\ pc[w] = "recv"
    /\ Taken(Workers) < MaxMsgs
    /\ loc' = [loc EXCEPT ![w].n = @ + 1]
    /\ UNCHANGED <<history, mu, pc, file, now, otherVars>>

\* ... and one that is handled.
Recv(w) ==
    /\ pc[w] = "recv"
    /\ Taken(Workers) < MaxMsgs
    /\ \E u \in Updates, cid \in NewCIDs :
          loc' = [loc EXCEPT ![w].n = @ + 1, ![w].h.u = u, ![w].h.cid = cid]
    /\ Goto(w, "getchat")
    /\ UNCHANGED <<history, mu, file, now, otherVars>>

\* safeBotHistory.Get(chatInfo.CID), and the start of handleMessage up to
\* the call of Add: go messaging.Typing(ctx, c)
GetChatLock(w) == Acquire(w, "getchat", "getchat_cs")
GetChat(w) ==
    /\ pc[w] = "getchat_cs"
    /\ history' = SafeBotHistoryGet(history, w, loc[w].h.cid)
    /\ mu' = Unlock(mu, w)
    /\ loc' = [loc EXCEPT ![w].h.typing = "running"]
    /\ Goto(w, "add1")
    /\ UNCHANGED <<file, now, otherVars>>

\* Add taking the lock with RLock.
Add1Lock_RLock(w) ==
    /\ pc[w] = "add1"
    /\ CanRLock(mu)
    /\ mu' = RLock(mu, w)
    /\ Goto(w, "add1_cs")
    /\ UNCHANGED <<history, loc, file, now, otherVars>>

\* lines := memory.Add([2]memory.IMessage{c, m}, "", sh)
Add1Lock(w) == Acquire(w, "add1", "add1_cs")
Add1(w) ==
    /\ pc[w] = "add1_cs"
    /\ TimeNow
    /\ LET h == loc[w].h
           messages == <<h.u.msg, h.u.reply>>
       IN  /\ history' = [history EXCEPT ![w][h.cid] = Add(messages, E, @, now')]
           /\ loc' = [loc EXCEPT ![w].h.lines = getLines(messages, E)]
    /\ mu' = Unlock(mu, w)
    /\ Goto(w, "get")
    /\ UNCHANGED <<file, otherVars>>

\* dialog := memory.Get(lines, sh, c.MemoryLimit), then the call of api.Send
GetRLock(w) ==
    /\ pc[w] = "get"
    /\ CanRLock(mu)
    /\ mu' = RLock(mu, w)
    /\ Goto(w, "get_cs")
    /\ UNCHANGED <<history, loc, file, now, otherVars>>
\* Get returning with the read lock still held.
GetDialog_KeepRLock(w) ==
    /\ pc[w] = "get_cs"
    /\ LET h == loc[w].h
           r == Get(h.lines, history[w][h.cid], MemoryLimit)
       IN  loc' = [loc EXCEPT ![w].h.dialog = r.dialog, ![w].h.lines = r.arg]
    /\ Goto(w, "sending")
    /\ UNCHANGED <<history, mu, file, now, otherVars>>

GetDialog(w) ==
    /\ pc[w] = "get_cs"
    /\ LET h == loc[w].h
           r == Get(h.lines, history[w][h.cid], MemoryLimit)
       IN  loc' = [loc EXCEPT ![w].h.dialog = r.dialog, ![w].h.lines = r.arg]
    /\ mu' = RUnlock(mu, w)
    /\ Goto(w, "sending")
    /\ UNCHANGED <<history, file, now, otherVars>>

\* text, err := api.Send(dialog, c.Config, c.ChatTitle), entered when Get
\* returned, returns a text, which is sent as the reply:
\* resp := messaging.Reply(c, text); m = messaging.NewMessageInfo(c.Bot, resp)
SendOk(w) ==
    /\ pc[w] = "sending"
    /\ loc' = [loc EXCEPT ![w].h.text = R_go]
    /\ Goto(w, "add2")
    /\ UNCHANGED <<history, mu, file, now, otherVars>>

\* The error sending the message through handleMessage again.
SendErr_Again(w) ==
    /\ pc[w] = "sending"
    /\ Goto(w, "get")
    /\ UNCHANGED <<history, mu, loc, file, now, otherVars>>

\* The error return without the cancel().
SendErr_NoCancel(w) ==
    /\ pc[w] = "sending"
    /\ loc' = [loc EXCEPT ![w].h = [NoLocals EXCEPT !.typing = loc[w].h.typing]]
    /\ Goto(w, "clean")
    /\ UNCHANGED <<history, mu, file, now, otherVars>>

\* or an error: handleMessage returns, the deferred cancel() runs,
SendErr(w) ==
    /\ pc[w] = "sending"
    /\ loc' = [loc EXCEPT ![w].h = Returned]
    /\ Goto(w, "clean")
    /\ UNCHANGED <<history, mu, file, now, otherVars>>

\* or loadSettings ends the process with log.Fatalf.
SendFatal(w) ==
    /\ pc[w] = "sending"
    /\ Exit
    /\ UNCHANGED <<file, now, otherVars>>

\* memory.Add([2]memory.IMessage{m, nil}, lines[0], sh), then the return of
\* handleMessage with its deferred cancel(); a panic in toLine(nil) is not
\* recovered and ends the process.
Add2Lock(w) == Acquire(w, "add2", "add2_cs")
Add2(w) ==
    /\ pc[w] = "add2_cs"
    /\ LET h == loc[w].h
           messages == <<ReplyMsg(h.text), NilMsg>>
       IN  IF getLines(messages, h.lines[1]) = Panic
           THEN Exit /\ now' = now
           ELSE /\ TimeNow
                /\ history' = [history EXCEPT
                                  ![w][h.cid] = Add(messages, h.lines[1], @, now')]
                /\ loc' = [loc EXCEPT ![w].h = Returned]
                /\ mu' = Unlock(mu, w)
                /\ Goto(w, "clean")
    /\ UNCHANGED <<file, otherVars>>

\* memory.CleanHistory(safeHistory)
CleanLock(w) == Acquire(w, "clean", "clean_cs")
Clean(w) ==
    /\ pc[w] = "clean_cs"
    /\ TimeNow
    /\ history' = CleanHistory(history, now')
    /\ loc' = [loc EXCEPT ![w].h.removed =
                          Cardinality(Entries(history) \ Entries(history'))]
    /\ mu' = Unlock(mu, w)
    /\ Goto(w, "save")
    /\ UNCHANGED <<file, otherVars>>

\* memory.SaveHistory(HistoryPath, safeHistory): the file is written whole,
\* or OpenFile fails and it is left as it was, or Write fails after the
\* truncation.
\* SaveHistory entered without the lock.
SaveLock_NoLock(w) ==
    /\ pc[w] = "save"
    /\ Goto(w, "save_cs")
    /\ UNCHANGED <<history, mu, loc, file, now, otherVars>>

SaveLock(w) == Acquire(w, "save", "save_cs")
Save(w) ==
    /\ pc[w] = "save_cs"
    /\ file' \in {Marshal(history), file, Truncated}
    /\ loc' = [loc EXCEPT ![w].h = NoLocals]
    /\ mu' = Unlock(mu, w)
    /\ Goto(w, "recv")
    /\ UNCHANGED <<history, now, otherVars>>

Worker(w) ==
    \/ GetBotLock(w) \/ GetBot(w) \/ RecvSkip(w) \/ Recv(w)
    \/ GetChatLock(w) \/ GetChat(w)
    \/ Add1Lock(w) \/ Add1(w) \/ GetRLock(w) \/ GetDialog(w)
    \/ SendOk(w) \/ SendErr(w) \/ SendFatal(w)
    \/ Add2Lock(w) \/ Add2(w) \/ CleanLock(w) \/ Clean(w)
    \/ SaveLock(w) \/ Save(w)

Next == \E w \in Workers : Worker(w)

Spec == Init /\ [][Next]_vars

-----------------------------------------------------------------------------
(* SpecFile: the history through the runs of the process, one after another. *)
(* A run loads the file, then calls the getters, record, the sweep and       *)
(* persist; it ends when the process is stopped, exits or panics, and the    *)
(* next run finds the file as the last one left it.                          *)

FileCIDs == {1, 0 - 12}

\* The clock's step here: two steps pass the retention window, and the
\* timestamps fall on different hours of different days.
FileTickHours == (2 * TIME_LIMIT) \div 3

\* What is on disk before the first run.
FirstFiles == {Missing, NoAccess, ReadFails, Truncated, Mistyped, NullFile}

\* The record calls tried: bot, chat, newest message, previous message (the
\* last one stores its entry under the empty line).
FileRecords ==
    { <<"b1", 1, Msg(T_hi, S_bob, E), Msg(T_go, S_bob, O_bang)>>,
      <<"b1", 1, Msg(T_go, S_bob, O_bang), Msg(T_hi, S_bob, E)>>,
      <<"b1", 0 - 12, Msg(E, S_bob, E), Msg(T_hi, S_bob, E)>> }

NotLoaded == [op |-> "notloaded"]

fileOthers == <<mu, pc, loc, chat, lineVars, snd>>

FileInit ==
    /\ file \in FirstFiles
    /\ history = NotLoaded
    /\ lastOp = [op |-> "boot"]
    /\ now = 0
    /\ mu = Idle /\ pc = Idle /\ loc = Idle /\ chat = Idle
    /\ LineIdle /\ SendIdle

\* The process is running, the history loaded.
Running == lastOp.op \in {"loaded", "run", "saved"}

\* main: history := memory.LoadHistory(HistoryPath)
FileLoad ==
    /\ lastOp.op = "boot"
    /\ LET r == LoadHistory(file)
       IN  IF r.exit
           THEN /\ lastOp' = [op |-> "exit", from |-> file]
                /\ UNCHANGED <<history, file>>
           ELSE /\ history' = r.history
                /\ file' = r.file
                /\ lastOp' = [op |-> "loaded", from |-> file]
    /\ UNCHANGED <<now, fileOthers>>

\* safeHistory.Get(botName): the assignment to an entry of a nil map panics.
FileGetBot ==
    /\ Running
    /\ \E b \in Workers :
          IF history = NilHistory
          THEN lastOp' = [op |-> "panic"] /\ history' = history
          ELSE /\ history' = SafeHistoryGet(history, b)
               /\ lastOp' = [op |-> "run"]
    /\ UNCHANGED <<file, now, fileOthers>>

\* safeBotHistory.Get(CID) on a bot's handle
FileGetChat ==
    /\ Running /\ history # NilHistory
    /\ \E b \in DOMAIN history, c \in FileCIDs :
          history' = SafeBotHistoryGet(history, b, c)
    /\ lastOp' = [op |-> "run"]
    /\ UNCHANGED <<file, now, fileOthers>>

\* memory.Add on a chat's handle
FileRecord ==
    /\ Running /\ history # NilHistory
    /\ \E a \in FileRecords :
          /\ a[1] \in DOMAIN history /\ a[2] \in DOMAIN history[a[1]]
          /\ history' = [history EXCEPT
                            ![a[1]][a[2]] = Add(<<a[3], a[4]>>, E, @, now)]
    /\ lastOp' = [op |-> "run"]
    /\ UNCHANGED <<file, now, fileOthers>>

\* memory.CleanHistory
FileSweep ==
    /\ Running /\ history # NilHistory
    /\ history' = CleanHistory(history, now)
    /\ lastOp' = [op |-> "run"]
    /\ UNCHANGED <<file, now, fileOthers>>

\* memory.SaveHistory returning nil,
FileSave ==
    /\ Running /\ history # NilHistory
    /\ file' = Marshal(history)
    /\ lastOp' = [op |-> "saved"]
    /\ UNCHANGED <<history, now, fileOthers>>

\* or an error: OpenFile failed, or Write failed after the truncation.
FileSaveFails ==
    /\ Running /\ history # NilHistory
    /\ file' \in {file, Truncated}
    /\ lastOp' = [op |-> "run"]
    /\ UNCHANGED <<history, now, fileOthers>>

FileTick ==
    /\ Running
    /\ now + FileTickHours <= MaxTime
    /\ now' = now + FileTickHours
    /\ UNCHANGED <<history, file, lastOp, fileOthers>>

\* The run is over (a signal, the exit, the panic) and the process is
\* started again.
FileRestart ==
    /\ lastOp.op # "boot"
    /\ history' = NotLoaded
    /\ lastOp' = [op |-> "boot"]
    /\ UNCHANGED <<file, now, fileOthers>>

FileNext ==
    \/ FileLoad \/ FileGetBot \/ FileGetChat \/ FileRecord \/ FileSweep
    \/ FileSave \/ FileSaveFails \/ FileTick \/ FileRestart

SpecFile == FileInit /\ [][FileNext]_vars

-----------------------------------------------------------------------------
(* SpecLock: the store's operations as users of the one sync.RWMutex, with   *)
(* the waiting the main specification leaves out.  A writer first takes the  *)
(* RWMutex's inner mutex (handed over in arrival order to those waiting for  *)
(* it), then announces itself, which makes arriving readers wait, then waits *)
(* for the active readers to leave; its Unlock admits the waiting readers    *)
(* and hands the inner mutex on.                                             *)

LockWorkers == {"b1", "b2", "b3"}

\* The operations and how each takes the lock: Get with RLock, the others
\* with Lock; each releases it by defer.
StoreOps == {"getBot", "getChat", "record", "query", "sweep", "persist"}
IsReader(op) == op = "query"

\* The return statements of an operation: SaveHistory has three error
\* returns (OpenFile, Marshal, Write) besides its normal one.
ReturnPaths(op) ==
    IF op = "persist" THEN {"open_err", "marshal_err", "write_err", "ok"}
    ELSE {"ok"}

NoCall == [op |-> "none", ret |-> "none"]

lockOthers == <<history, file, now, storeVars, lineVars, snd>>

LockInit ==
    /\ mu = [inner |-> NoOne, queue |-> <<>>, writer |-> NoOne,
             readers |-> {}, blocked |-> {}]
    /\ pc = [v \in LockWorkers |-> "idle"]
    /\ loc = [v \in LockWorkers |-> NoCall]
    /\ history = Idle /\ file = Idle /\ now = 0
    /\ StoreIdle /\ LineIdle /\ SendIdle

\* A worker calls an operation.
LockCall(v) ==
    /\ pc[v] = "idle"
    /\ \E op \in StoreOps : loc' = [loc EXCEPT ![v] = [op |-> op, ret |-> "none"]]
    /\ pc' = [pc EXCEPT ![v] = "lock"]
    /\ UNCHANGED <<mu, lockOthers>>

\* sh.mu.RLock(): in at once unless a writer has announced itself.
LockRLock(v) ==
    /\ pc[v] = "lock" /\ IsReader(loc[v].op)
    /\ IF mu.inner = NoOne
       THEN /\ mu' = [mu EXCEPT !.readers = @ \cup {v}]
            /\ pc' = [pc EXCEPT ![v] = "held"]
       ELSE /\ mu' = [mu EXCEPT !.blocked = @ \cup {v}]
            /\ pc' = [pc EXCEPT ![v] = "blocked"]
    /\ UNCHANGED <<loc, lockOthers>>

\* sh.mu.Lock(): the inner mutex, taken or waited for.
LockLock(v) ==
    /\ pc[v] = "lock" /\ ~IsReader(loc[v].op)
    /\ IF mu.inner = NoOne
       THEN /\ mu' = [mu EXCEPT !.inner = v]
            /\ pc' = [pc EXCEPT ![v] = "drain"]
       ELSE /\ mu' = [mu EXCEPT !.queue = Append(@, v)]
            /\ pc' = [pc EXCEPT ![v] = "queued"]
    /\ UNCHANGED <<loc, lockOthers>>

\* The announced writer goes in when the last active reader has left.
LockDrained(v) ==
    /\ pc[v] = "drain" /\ mu.readers = {}
    /\ mu' = [mu EXCEPT !.writer = v]
    /\ pc' = [pc EXCEPT ![v] = "held"]
    /\ UNCHANGED <<loc, lockOthers>>

\* The state of the lock after the holder v's RUnlock or Unlock, and the
\* positions of the workers it lets on.
Released(v) ==
    IF IsReader(loc[v].op)
    THEN [mu EXCEPT !.readers = @ \ {v}]
    ELSE [inner   |-> IF mu.queue = <<>> THEN NoOne ELSE Head(mu.queue),
          queue   |-> IF mu.queue = <<>> THEN <<>> ELSE Tail(mu.queue),
          writer  |-> NoOne,
          readers |-> mu.blocked,
          blocked |-> {}]

Woken(v, u, at) ==
    IF u = v THEN "idle"
    ELSE IF ~IsReader(loc[v].op) /\ u \in mu.blocked THEN "held"
    ELSE IF ~IsReader(loc[v].op) /\ mu.queue # <<>> /\ u = Head(mu.queue) THEN "drain"
    ELSE at

\* persist's error returns leaving the lock held (Unlock not deferred).
LockReturn_LeakOnError(v) ==
    /\ pc[v] = "held"
    /\ \E path \in ReturnPaths(loc[v].op) :
          /\ loc' = [loc EXCEPT ![v].ret = path]
          /\ IF path = "ok"
             THEN /\ mu' = Released(v)
                  /\ pc' = [u \in LockWorkers |-> Woken(v, u, pc[u])]
             ELSE /\ mu' = mu
                  /\ pc' = [pc EXCEPT ![v] = "idle"]
    /\ UNCHANGED lockOthers

\* The operation returns by one of its return statements; the deferred
\* RUnlock or Unlock runs.
LockReturn(v) ==
    /\ pc[v] = "held"
    /\ \E path \in ReturnPaths(loc[v].op) : loc' = [loc EXCEPT ![v].ret = path]
    /\ mu' = Released(v)
    /\ pc' = [u \in LockWorkers |-> Woken(v, u, pc[u])]
    /\ UNCHANGED lockOthers

\* What a worker does once it has called: it does not stop inside the lock
\* calls or the operation.
LockRun(v) == LockRLock(v) \/ LockLock(v) \/ LockDrained(v) \/ LockReturn(v)

LockNext == \E v \in LockWorkers : LockCall(v) \/ LockRun(v)

SpecLock == LockInit /\ [][LockNext]_vars

FairSpecLock == SpecLock /\ \A v \in LockWorkers : WF_vars(LockRun(v))

-----------------------------------------------------------------------------
(* Claims on Spec *)

InWrite(w) == pc[w] \in {"getbot_cs", "getchat_cs", "add1_cs", "add2_cs",
                         "clean_cs", "save_cs"}
InRead(w)  == pc[w] = "get_cs"

\* C1: no two workers are inside critical sections of mutating operations
\* (the two getters, Add, CleanHistory, SaveHistory) at once, and none is
\* inside one while another is inside the query's (Get); the lock is held
\* accordingly.
C1_MutualExclusion ==
    /\ \A w1, w2 \in Workers :
          w1 # w2 => ~(InWrite(w1) /\ (InWrite(w2) \/ InRead(w2)))
    /\ \A w \in Workers : /\ InWrite(w) => mu.writer = w
                          /\ InRead(w) => w \in mu.readers

\* Two queries inside Get at the same time.
C1_Witness == \A w \in Workers : InRead(w)

\* C2: when the first record of a message returned two lines and the
\* generation call succeeded, the entry recorded for the reply's line has the
\* inbound message's line as its predecessor.
C2_ReplyChainsToInbound ==
    [][\A w \in Workers :
          (pc[w] = "add2_cs" /\ pc'[w] = "clean" /\ Len(loc[w].h.lines) = 2) =>
              LET h         == loc[w].h
                  newest    == toLine(h.u.msg)
                  replyLine == toLine(ReplyMsg(h.text))
                  H         == history'[w][h.cid]
              IN  replyLine \in DOMAIN H /\ H[replyLine].Line = newest]_vars

\* C6: a sweep, with the clock read once, keeps every bot and every chat and
\* in each chat exactly the entries aged TIME_LIMIT or less, unchanged.
C6_SweepRemovesExactlyExpired ==
    [][\A w \in Workers :
          (pc[w] = "clean_cs" /\ pc'[w] = "save") =>
              /\ DOMAIN history' = DOMAIN history
              /\ \A b \in DOMAIN history :
                    /\ DOMAIN history'[b] = DOMAIN history[b]
                    /\ \A c \in DOMAIN history[b] :
                          LET H == history[b][c]
                              K == history'[b][c]
                          IN  /\ DOMAIN K = {l \in DOMAIN H :
                                                now' - H[l].Timestamp <= TIME_LIMIT}
                              /\ \A l \in DOMAIN K : K[l] = H[l]]_vars

\* Right after a sweep that removed entries: an entry exactly TIME_LIMIT old
\* is still there, and a chat is left empty in its bot.
C6_Witness ==
    \E w \in Workers :
        /\ pc[w] = "save" /\ loc[w].h.removed > 0
        /\ \E e \in Entries(history) :
              now - history[e[1]][e[2]][e[3]].Timestamp = TIME_LIMIT
        /\ \E b \in DOMAIN history : \E c \in DOMAIN history[b] :
              history[b][c] = NoEntries

\* w's step takes it to position `to` from another position.
Enters(w, to) == pc[w] # to /\ pc'[w] = to

\* The lines of w's chat `c` are exactly those of S.
ChatHolds(w, c, S) ==
    /\ w \in DOMAIN history /\ c \in DOMAIN history[w]
    /\ DOMAIN history[w][c] = S

\* C16: a worker that handled a message, whether the generation gave a text
\* or an error, runs the sweep and then persist before it takes its next
\* update; persist runs under the exclusive lock, one worker at a time, the
\* history does not change while it runs, only persist writes the file, and
\* what it writes is the encoding of the whole history.
C16_SweepThenPersist ==
    [][/\ \A w \in Workers :
             /\ Enters(w, "clean")    => pc[w] \in {"sending", "add2_cs"}
             /\ Enters(w, "clean_cs") => pc[w] = "clean"
             /\ Enters(w, "save")     => pc[w] = "clean_cs"
             /\ Enters(w, "save_cs")  => pc[w] = "save"
             /\ Enters(w, "recv")     => pc[w] \in {"getbot_cs", "save_cs"}
             /\ (pc[w] \in {"sending", "add2_cs"} /\ pc'[w] # pc[w])
                   => pc'[w] \in {"add2", "clean", "exit"}
             /\ pc[w] = "save_cs" =>
                   /\ mu.writer = w
                   /\ \A v \in Workers \ {w} : ~InWrite(v) /\ ~InRead(v)
                   /\ pc'[w] # "exit" => history' = history
       /\ file' # file =>
             /\ \E w \in Workers : pc[w] = "save_cs" /\ pc'[w] = "recv"
             /\ file' \in {Marshal(history), Truncated}]_vars

\* A worker back at its updates after a message whose generation failed: the
\* inbound pair and no reply in its chat, and the file holding that history.
C16_Witness ==
    \E w \in Workers :
        /\ pc[w] = "recv" /\ loc[w].n = 1
        /\ ChatHolds(w, 1, {L_go})
        /\ file = Marshal(history)

\* C17: when Send returns an error the history stays as it is (the inbound
\* pair recorded before the call included), no reply text is produced, the
\* second record is not run (it follows a successful Send only), the message
\* goes to Send once (after the query that follows its record) and the worker
\* goes on to the sweep, persist and its next update.
C17_SendErrorDropsMessage ==
    [][\A w \in Workers :
          /\ (pc[w] = "sending" /\ pc'[w] = "clean") =>
                /\ history' = history /\ file' = file
                /\ loc'[w].h.text = E
          /\ Enters(w, "add2")    => pc[w] = "sending" /\ loc'[w].h.text # E
          /\ Enters(w, "sending") => pc[w] = "get_cs"
          /\ Enters(w, "get")     => pc[w] = "add1_cs"
          /\ Enters(w, "add1")    => pc[w] = "getchat_cs"
          /\ Enters(w, "getchat") => pc[w] = "recv" /\ loc'[w].n = loc[w].n + 1
          /\ pc[w] \in {"clean", "clean_cs", "save", "save_cs"} =>
                pc'[w] \in {"clean", "clean_cs", "save", "save_cs", "recv", "exit"}]_vars

\* A worker that has taken its next update after a message whose generation
\* failed: that message's inbound pair is in the chat, no reply is.
C17_Witness ==
    \E w \in Workers :
        /\ pc[w] = "getchat" /\ loc[w].n = 2
        /\ ChatHolds(w, 1, {L_go})
        /\ history[w][1][L_go].Line = L_hi

\* The lock is free of every worker that is in no critical section.
C18_State ==
    /\ \A w \in Workers :
          pc[w] = "sending" => mu.writer # w /\ w \notin mu.readers
    /\ mu.writer \in {NoOne} \cup {w \in Workers : InWrite(w)}
    /\ mu.readers = {w \in Workers : InRead(w)}

\* C18: a worker inside Send holds the lock neither way, so that the lock is
\* held by those inside the store's operations only, and Send returning
\* leaves the history as it is.
C18_SendOutsideLock ==
    /\ []C18_State
    /\ [][\A w \in Workers :
             (pc[w] = "sending" /\ pc'[w] \in {"add2", "clean"})
                 => history' = history /\ mu' = mu]_vars

\* One worker inside Send while the other is inside persist.
C18_Witness ==
    \E w, v \in Workers :
        /\ pc[w] = "sending"
        /\ pc[v] = "save_cs" /\ mu.writer = v

\* One worker inside Send while the other is inside the query.
C18_WitnessQuery ==
    \E w, v \in Workers :
        /\ pc[w] = "sending"
        /\ pc[v] = "get_cs" /\ v \in mu.readers

\* C19: the getters add the container when it is absent, empty, and change
\* nothing when it is there; no step of a running process removes a bot or a
\* chat, and a worker between its getter and the end of the message has its
\* bot and chat in the history.
C19_GettersKeepContainers ==
    [][\A w \in Workers :
          /\ (pc[w] = "getbot_cs" /\ pc'[w] = "recv") =>
                IF w \in DOMAIN history THEN history' = history
                ELSE /\ DOMAIN history' = DOMAIN history \cup {w}
                     /\ history'[w] = NoChats
                     /\ \A b \in DOMAIN history : history'[b] = history[b]
          /\ (pc[w] = "getchat_cs" /\ pc'[w] = "add1") =>
                LET c == loc[w].h.cid
                IN  IF c \in DOMAIN history[w] THEN history' = history
                    ELSE /\ DOMAIN history' = DOMAIN history
                         /\ DOMAIN history'[w] = DOMAIN history[w] \cup {c}
                         /\ history'[w][c] = NoEntries
                         /\ \A b \in DOMAIN history : \A d \in DOMAIN history[b] :
                               history'[b][d] = history[b][d]
          /\ pc'[w] # "exit" =>
                /\ DOMAIN history \subseteq DOMAIN history'
                /\ \A b \in DOMAIN history :
                      DOMAIN history[b] \subseteq DOMAIN history'[b]
          /\ pc[w] \in {"add1", "add1_cs", "get", "get_cs", "sending",
                        "add2", "add2_cs"} =>
                /\ w \in DOMAIN history
                /\ loc[w].h.cid \in DOMAIN history[w]]_vars

\* The chat getter called for the second message in a chat that has entries,
\* which it kept.
C19_Witness ==
    \E w \in Workers :
        /\ pc[w] = "add1" /\ loc[w].n = 2
        /\ history[w][loc[w].h.cid] # NoEntries

\* w's step is a record that derived `lines` for its chat: when they are
\* two, the chat gets the first as a key with the second and the time read
\* as its entry, and nothing else in the history changes.
RecordFrame(w, lines) ==
    Len(lines) = 2 =>
        LET c == loc[w].h.cid
            H == history[w][c]
            K == history'[w][c]
        IN  /\ DOMAIN K = DOMAIN H \cup {lines[1]}
            /\ K[lines[1]] = [Line |-> lines[2], Timestamp |-> now']
            /\ \A l \in DOMAIN H \ {lines[1]} : K[l] = H[l]
            /\ DOMAIN history' = DOMAIN history
            /\ \A b \in DOMAIN history :
                  /\ DOMAIN history'[b] = DOMAIN history[b]
                  /\ \A d \in DOMAIN history[b] :
                        (b # w \/ d # c) => history'[b][d] = history[b][d]

ReplyLine == toLine(ReplyMsg(R_go))

\* C21: a record that derived two lines [newest, previous] sets the key
\* `newest` of its chat to {previous, the time read}, whether or not the key
\* was there, and changes no other key of the chat and nothing in any other
\* chat or bot.
C21_RecordSetsOneKey ==
    [][\A w \in Workers :
          /\ (pc[w] = "add1_cs" /\ pc'[w] = "get") =>
                RecordFrame(w, getLines(<<loc[w].h.u.msg, loc[w].h.u.reply>>, E))
          /\ (pc[w] = "add2_cs" /\ pc'[w] = "clean") =>
                RecordFrame(w, getLines(<<ReplyMsg(loc[w].h.text), NilMsg>>,
                                        loc[w].h.lines[1]))]_vars

\* The same inbound line recorded for a second message: its entry is newer
\* than the reply that was chained to its first entry, in a history with
\* another chat.
C21_Witness ==
    \E w \in Workers :
        /\ pc[w] = "get" /\ loc[w].n = 2
        /\ ChatHolds(w, 1, {L_hi, L_go, ReplyLine})
        /\ history[w][1][ReplyLine].Line = L_go
        /\ history[w][1][L_go].Timestamp > history[w][1][ReplyLine].Timestamp
        /\ 2 \in DOMAIN history[w]

InHandleMessage(w) ==
    pc[w] \in {"add1", "add1_cs", "get", "get_cs", "sending", "add2", "add2_cs"}

AfterHandleMessage(w) == pc[w] \in {"clean", "clean_cs", "save", "save_cs"}

\* C24: the typing task of a message runs while the message is handled and
\* is cancelled when its handling has returned, after the reply was recorded
\* as after a failed generation call; a worker between messages has no
\* typing task running.
C24_TypingCancelled ==
    \A w \in Workers :
        /\ InHandleMessage(w) => loc[w].h.typing = "running"
        /\ AfterHandleMessage(w) => loc[w].h.typing = "cancelled"
        /\ (~InHandleMessage(w) /\ ~AfterHandleMessage(w)) => loc[w].h.typing = "none"

\* The handling has returned after a failed generation call (the inbound
\* pair and no reply in the chat), its typing task cancelled.
C24_Witness ==
    \E w \in Workers :
        /\ pc[w] = "clean" /\ loc[w].h.typing = "cancelled"
        /\ ChatHolds(w, 1, {L_go})

\* The handling has returned after the reply was recorded.
C24_WitnessReplied ==
    \E w \in Workers :
        /\ pc[w] = "clean" /\ loc[w].h.typing = "cancelled"
        /\ ChatHolds(w, 1, {L_go, ReplyLine})

-----------------------------------------------------------------------------
(* Claims on SpecStore *)

Max(a, b) == IF a > b THEN a ELSE b

IsSuffixOf(s, t) ==
    /\ Len(s) <= Len(t)
    /\ SubSeq(t, Len(t) - Len(s) + 1, Len(t)) = s

QueryOfPair == lastOp.op = "query" /\ Len(lastOp.lines) = 2

\* C3: for starting lines [l0, l1] and depth d, query returns
\* [p_k, ..., p_1, l1, l0], p_1 the predecessor recorded under l1 and p_(j+1)
\* the one recorded under p_j, with k the smaller of max(d-2, 0) and the
\* number of lookups that succeed before the first missing key; fewer than
\* two starting lines are returned unchanged.
C3_QueryWalksChain ==
    lastOp.op = "query" =>
        LET lines == lastOp.lines
            r     == lastOp.ret.dialog
            n     == Len(r)
            k     == n - 2
            cap   == Max(lastOp.depth - 2, 0)
        IN  IF Len(lines) < 2 THEN r = lines
            ELSE /\ 0 <= k /\ k <= cap
                 /\ r[n] = lines[1] /\ r[n - 1] = lines[2]
                 /\ \A j \in 1..k : /\ r[n - j] \in DOMAIN chat
                                    /\ r[n - 1 - j] = chat[r[n - j]].Line
                 /\ k < cap => r[1] \notin DOMAIN chat

\* A walk of two predecessors that the end of the chain stopped, not the depth.
C3_Witness ==
    /\ QueryOfPair /\ lastOp.depth = 5
    /\ Len(lastOp.ret.dialog) = 4
    /\ lastOp.ret.dialog[1] # lastOp.ret.dialog[2]

\* C4: for two starting lines, query does at most max(depth-2, 0) lookups and
\* returns at most max(depth, 2) lines; with depth 2 or less it returns only
\* the two starting lines and looks nothing up, and with depth 5 on a chain of
\* three lines it returns exactly those three.
C4_QueryBoundedByDepth ==
    QueryOfPair =>
        LET lines == lastOp.lines
            d     == lastOp.depth
            r     == lastOp.ret
        IN  /\ r.lookups <= Max(d - 2, 0)
            /\ Len(r.dialog) <= Max(d, 2)
            /\ d <= 2 => r.lookups = 0 /\ r.dialog = <<lines[2], lines[1]>>
            /\ (d = 5 /\ lines[2] \in DOMAIN chat
                      /\ chat[lines[2]].Line \notin DOMAIN chat)
                  => r.dialog = <<chat[lines[2]].Line, lines[2], lines[1]>>

\* Depth 5 on a chain of three lines.
C4_Witness ==
    /\ QueryOfPair /\ lastOp.depth = 5
    /\ lastOp.lines[2] \in DOMAIN chat
    /\ chat[lastOp.lines[2]].Line \notin DOMAIN chat
    /\ Len(lastOp.ret.dialog) = 3

\* The chat is longer than depth 2 reads.
C4_WitnessDepth2 ==
    /\ QueryOfPair /\ lastOp.depth = 2
    /\ lastOp.lines[2] \in DOMAIN chat
    /\ chat[lastOp.lines[2]].Line \in DOMAIN chat

\* C5: right after a sweep, every query gives a suffix (the newest tail) of
\* what the same query gave on the history before the sweep.
C5_SweepOnlyShortens ==
    lastOp.op = "sweep" =>
        \A lines \in QueryLines, d \in Depths :
            IsSuffixOf(Get(lines, chat, d).dialog, Get(lines, lastOp.before, d).dialog)

\* A sweep that removed a middle node: the walk from l1 found two
\* predecessors before the sweep and finds one after it.
C5_Witness ==
    /\ lastOp.op = "sweep"
    /\ \E lines \in QueryLines :
          /\ Len(lines) = 2
          /\ Len(Get(lines, lastOp.before, MaxDepth).dialog) >= 4
          /\ Len(Get(lines, chat, MaxDepth).dialog) = 3

C8_NoEmptyLineStored ==
    /\ E \notin DOMAIN chat
    /\ \A l \in DOMAIN chat : chat[l].Line # E

\* C20: query leaves the chat history as it is and leaves the caller's
\* starting lines as they were, the same elements in the same order.
C20_QueryReadOnly ==
    [][lastOp'.op = "query" =>
          /\ chat' = chat
          /\ lastOp'.ret.arg = lastOp'.lines]_vars

\* The walk from line l stays in the chat for k more lookups.
RECURSIVE StaysIn(_, _)
StaysIn(l, k) ==
    IF k = 0 THEN TRUE
    ELSE l \in DOMAIN chat /\ StaysIn(chat[l].Line, k - 1)

\* The walk from l never reaches a missing key: it runs into a cycle.
Cyclic(l) == StaysIn(l, Cardinality(DOMAIN chat) + 1)

\* C22: a query whose walk runs into a cycle of predecessors (a line that is
\* its own predecessor included) ends: it does max(depth-2, 0) lookups, all
\* successful, returns max(depth, 2) lines, and when it collected more lines
\* than the chat has keys, lines of the cycle are in the dialog twice.
C22_QueryEndsOnCycles ==
    (QueryOfPair /\ Cyclic(lastOp.lines[2])) =>
        LET d == lastOp.depth
            r == lastOp.ret
            n == Len(r.dialog)
        IN  /\ r.lookups = Max(d - 2, 0)
            /\ n = Max(d, 2)
            /\ n - 1 > Cardinality(DOMAIN chat) =>
                  \E i, j \in 1..(n - 1) : i # j /\ r.dialog[i] = r.dialog[j]

\* A query of depth 5 from a line that is its own predecessor.
C22_Witness ==
    /\ QueryOfPair /\ lastOp.depth = 5
    /\ lastOp.lines[2] \in DOMAIN chat
    /\ chat[lastOp.lines[2]].Line = lastOp.lines[2]
    /\ Len(lastOp.ret.dialog) = 5

\* A query of depth 5 into a cycle of two lines.
C22_WitnessTwo ==
    /\ QueryOfPair /\ lastOp.depth = 5
    /\ Cyclic(lastOp.lines[2])
    /\ chat[lastOp.lines[2]].Line # lastOp.lines[2]
    /\ lastOp.ret.dialog[1] = lastOp.ret.dialog[3]
    /\ lastOp.ret.dialog[2] = lastOp.ret.dialog[4]

-----------------------------------------------------------------------------
(* Claims on SpecLine *)

\* C9: the line of a message is empty if its text or sender is empty, the
\* text without the marker if it carries a marker its text ends with, and
\* "<Sender, capitalized>: <text>" in every other case.
C9_LineAsSpecified ==
    lineOut # Pending =>
        lineOut =
            IF lineMsg.text = E \/ lineMsg.sender = E THEN E
            ELSE IF lineMsg.order # E /\ HasSuffix(lineMsg.text, lineMsg.order)
                 THEN SubSeq(lineMsg.text, 1, Len(lineMsg.text) - Len(lineMsg.order))
                 ELSE capitalize(lineMsg.sender) \o <<":", " ">> \o lineMsg.text

-----------------------------------------------------------------------------
(* Claims on SpecSend *)

SendReturned == snd.pc = "done" /\ Len(snd.att) > 0

\* C10: Send issues at most 3 requests; every attempt before the last one
\* failed; when it returns after a successful attempt it returns that
\* response's text and no error; when it returns after a failed one, that was
\* the third attempt and it returns its error with empty text.
C10_SendState ==
    /\ Len(snd.att) <= 3
    /\ \A k \in 1..(Len(snd.att) - 1) : snd.att[k].kind # "ok"
    /\ SendReturned =>
          LET n == Len(snd.att)
              last == snd.att[n]
          IN  IF last.kind = "ok"
              THEN snd.text = last.text /\ snd.err = NoErr
              ELSE /\ n = 3
                   /\ snd.err = [kind |-> last.kind, try |-> n - 1]
                   /\ snd.text = E

\* C10, with termination: the above in every state, and every call ends
\* (it returns, or the process exits in loadSettings).
C10_SendRetriesAndEnds ==
    /\ []C10_SendState
    /\ <>(snd.pc \in {"done", "exit"})

\* Three failed attempts, of different kinds, and the last one's error returned.
C10_Witness ==
    /\ SendReturned /\ Len(snd.att) = 3
    /\ snd.att[3].kind = "status" /\ snd.att[2].kind = "transport"
    /\ snd.err.kind = "status"

\* A success at the second attempt ends the call.
C10_WitnessSecondTry ==
    /\ SendReturned /\ Len(snd.att) = 2 /\ snd.text = R_ok

\* C11: the wait after the k-th failed attempt is 5 * 2^k, every failed
\* attempt (the third too) is followed by its wait and a successful one by
\* none: three failures give the waits 10, 20, 40, in that order, before the
\* error is returned.
C11_BackoffWaits ==
    /\ \A k \in 1..Len(snd.waits) :
          /\ snd.waits[k] = 5 * 2 ^ k
          /\ k <= Len(snd.att) /\ snd.att[k].kind # "ok"
    /\ SendReturned =>
          LET n == Len(snd.att)
          IN  IF snd.att[n].kind = "ok"
              THEN Len(snd.waits) = n - 1
              ELSE snd.waits = <<10, 20, 40>> /\ snd.err # NoErr

\* Three failed attempts, the three waits made, the error returned.
C11_Witness ==
    /\ SendReturned /\ Len(snd.att) = 3 /\ snd.err # NoErr
    /\ snd.waits = <<10, 20, 40>>

\* A success at the third attempt: two waits and no third.
C11_WitnessThirdTry ==
    /\ SendReturned /\ Len(snd.att) = 3 /\ snd.err = NoErr
    /\ snd.waits = <<10, 20>>

\* The placeholder check has been made.
SendChecked == snd.pc \in {"try", "sleep", "done"}

C12_WitnessOne ==
    /\ CountPlaceholders(snd.sys) = 1 /\ Len(snd.sent) = 2
    /\ snd.sent[2] = <<"chat ", "team">>

\* C13: when the settings file cannot be read or decoded, Send returns an
\* error to its caller, with no request and no wait made; the process goes on.
C13_LoadFailureIsAnError ==
    snd.load \in {"read_err", "decode_err"} =>
        /\ snd.pc = "done" /\ snd.err # NoErr
        /\ snd.att = <<>> /\ snd.waits = <<>>

-----------------------------------------------------------------------------
(* Claims on SpecFile *)

\* C14: load never ends the process and always returns a map the store can
\* work on: the empty history for an absent file (which it creates), for a
\* file it cannot open or read, and for content that is not a JSON object of
\* the history's shape; the getters do not fail on what it returned.
C14_LoadAlwaysUsable ==
    /\ lastOp.op \notin {"exit", "panic"}
    /\ lastOp.op = "loaded" =>
          /\ history # NilHistory
          /\ lastOp.from \in FirstFiles => history = NoBots
          /\ lastOp.from = Missing => file = Truncated

\* C15: right after a persist that succeeded, load of the file gives the
\* history that was persisted: the same bots, chats and lines, and under
\* each line the same predecessor and timestamp.
C15_PersistLoadRoundTrip ==
    lastOp.op = "saved" =>
        LET r == LoadHistory(file)
        IN  /\ ~r.exit
            /\ r.file = file
            /\ DOMAIN r.history = DOMAIN history
            /\ \A b \in DOMAIN history :
                  /\ DOMAIN r.history[b] = DOMAIN history[b]
                  /\ \A c \in DOMAIN history[b] :
                        /\ DOMAIN r.history[b][c] = DOMAIN history[b][c]
                        /\ \A l \in DOMAIN history[b][c] :
                              r.history[b][c][l] = history[b][c][l]

\* A history persisted with two bots, one with two chats: a chat with two
\* lines recorded on different days, and a chat with the empty line as a key.
C15_Witness ==
    /\ lastOp.op = "saved"
    /\ DOMAIN history = Workers
    /\ DOMAIN history["b1"] = FileCIDs
    /\ \E l1, l2 \in DOMAIN history["b1"][1] :
          history["b1"][1][l1].Timestamp \div 24 # history["b1"][1][l2].Timestamp \div 24
    /\ E \in DOMAIN history["b1"][0 - 12]

\* A run that loaded what the run before persisted.
C15_WitnessLoaded ==
    /\ lastOp.op = "loaded" /\ lastOp.from \notin FirstFiles
    /\ history = Unmarshal(lastOp.from)
    /\ Entries(history) # {}

-----------------------------------------------------------------------------
(* Claims on SpecLock *)

Wants(v) == pc[v] \in {"lock", "queued", "drain", "blocked"}

\* The lock is held by the workers inside an operation, each in the way of
\* its operation: a writer alone, readers together; a worker that is not
\* inside an operation holds nothing.
LockHeldInside ==
    /\ mu.readers = {v \in LockWorkers : pc[v] = "held" /\ IsReader(loc[v].op)}
    /\ \A v \in LockWorkers :
          (pc[v] = "held" /\ ~IsReader(loc[v].op)) <=> mu.writer = v
    /\ mu.writer # NoOne => mu.readers = {} /\ mu.inner = mu.writer

\* C23: every operation takes the lock once, when it holds nothing, and has
\* released it when it has returned, by whichever return statement; and
\* every worker that requests the lock gets it, the holders running on.
C23_LockDeadlockFree ==
    /\ []LockHeldInside
    /\ [][\A v \in LockWorkers :
             /\ (pc[v] # "held" /\ pc'[v] = "held") =>
                   Wants(v) /\ v \notin mu.readers /\ mu.writer # v
             /\ (pc[v] = "held" /\ pc'[v] # "held") =>
                   /\ pc'[v] = "idle"
                   /\ v \notin mu'.readers /\ mu'.writer # v /\ mu'.inner # v]_vars
    /\ \A v \in LockWorkers : Wants(v) ~> pc[v] = "held"

\* persist has returned by an error path and the lock went on to a writer
\* that had waited for it.
C23_Witness ==
    \E v, u \in LockWorkers :
        /\ pc[v] = "idle" /\ loc[v].op = "persist" /\ loc[v].ret = "write_err"
        /\ pc[u] = "held" /\ loc[u].op = "sweep" /\ mu.writer = u

\* A writer waiting for active readers while an arriving reader waits for it.
C23_WitnessWaiting ==
    \E v, u, t \in LockWorkers :
        /\ pc[v] = "drain" /\ pc[u] = "blocked" /\ pc[t] = "held"
        /\ t \in mu.readers

====
